---- MODULE Spec2Model ----
(***************************************************************************)
(* Model of the evidence retrieval pipeline of talk-to-the-chart:          *)
(*   MockClinicalNoteRepository.find_by_resident_id  (repositories.py)     *)
(*   SearchClinicalNotesUseCase.execute              (interfaces.py)       *)
(*   GeminiQueryProcessor.process_query / _parse_search_response /         *)
(*     generate_summary / _extract_evidence_type     (gemini_service.py)   *)
(*                                                                         *)
(* Text is a sequence of symbols.  A symbol is one character, except that  *)
(* the literals the parser looks for ("SNIPPET:", "NOTE_ID: NOTE_",        *)
(* "RELEVANCE: ") are one symbol each; the digits that follow them are     *)
(* separate symbols, so matching \d+ and converting with int()/float() are *)
(* modelled as a scan and a base-10 conversion.                            *)
(* relevance_score is kept in tenths: the float d / 10.0 is the integer d. *)
(***************************************************************************)
EXTENDS Integers, Sequences, FiniteSets, TLC

VARIABLES
    repo_notes,      \* MockClinicalNoteRepository._notes
    pc,              \* position of the current call
    resident_id,     \* execute's argument
    query,           \* execute's argument
    since_date,      \* execute's local: now - lookback_days
    notes,           \* execute's local: the retrieved notes
    gen_failed,      \* did model.generate_content / response.text raise
    response_text,   \* the reply text handed to _parse_search_response
    results,         \* process_query's return value
    summary,         \* generate_summary's return value
    raised,          \* an exception left the operation
    returned,        \* the value execute returned: <<>> or <<SearchResults>>
    ai_calls,        \* which AIQueryProcessor methods the call invoked, in order
    call_log,        \* the collaborator calls of the current execute, in order
    context,         \* the note blocks _prepare_context built for the prompt
    controller_result, \* what search_clinical_notes returned: <<>> or <<SearchResults>>
    filter_arg,      \* the note type of the last filter_by_note_type call
    filtered,        \* what that call returned: <<>> or <<SearchResults>>
    threads,         \* the frames of concurrently running execute calls
    session          \* run_interactive_session: its position and locals

\* the variables only the filter, concurrent and session specifications use
filter_vars == <<filter_arg, filtered>>
other_vars == <<filter_vars, threads, session>>

vars == <<repo_notes, pc, resident_id, query, since_date, notes, gen_failed,
          response_text, results, summary, raised, returned, ai_calls,
          call_log, controller_result, context, other_vars>>

----------------------------------------------------------------------------
(* Bounds *)

MaxFragments == 2
MaxQueryWords == 2
MaxResults == 3
NumCalls == 2

----------------------------------------------------------------------------
(* Text primitives *)

SNIPPET == "SNIPPET:"
QUOTE == "\""
NOTE_ID == "NOTE_ID: NOTE_"
RELEVANCE == "RELEVANCE: "

Digits == {"0", "1", "2", "3", "4", "5", "6", "7", "8", "9"}

DigitVal(d) ==
    CASE d = "0" -> 0 [] d = "1" -> 1 [] d = "2" -> 2 [] d = "3" -> 3
      [] d = "4" -> 4 [] d = "5" -> 5 [] d = "6" -> 6 [] d = "7" -> 7
      [] d = "8" -> 8 [] d = "9" -> 9

\* int(s) for a string of decimal digits
RECURSIVE int(_)
int(s) ==
    IF s = <<>> THEN 0
    ELSE 10 * int(SubSeq(s, 1, Len(s) - 1)) + DigitVal(s[Len(s)])

\* str.split(sep) for a one-symbol separator: the pieces between separators
RECURSIVE split(_, _)
split(text, sep) ==
    IF \A i \in 1..Len(text) : text[i] # sep THEN <<text>>
    ELSE LET k == CHOOSE i \in 1..Len(text) :
                      text[i] = sep /\ \A j \in 1..(i - 1) : text[j] # sep
         IN <<SubSeq(text, 1, k - 1)>> \o split(SubSeq(text, k + 1, Len(text)), sep)

\* needle in haystack (Python's substring test)
Contains(haystack, needle) ==
    \E i \in 0..(Len(haystack) - Len(needle)) :
        SubSeq(haystack, i + 1, i + Len(needle)) = needle

\* the (\d+) group that starts at position i: the longest run of digits
DigitRun(section, i) ==
    LET stop == IF \E j \in i..Len(section) : section[j] \notin Digits
                THEN (CHOOSE j \in i..Len(section) :
                         section[j] \notin Digits
                         /\ \A k \in i..(j - 1) : section[k] \in Digits) - 1
                ELSE Len(section)
    IN SubSeq(section, i, stop)

\* re.search(r'"([^"]+)"', section): group(1) of the leftmost match, <<>> if none
QuotedAt(section, i) ==
    /\ section[i] = QUOTE
    /\ \E j \in (i + 2)..Len(section) :
          section[j] = QUOTE /\ \A k \in (i + 1)..(j - 1) : section[k] # QUOTE

snippet_match(section) ==
    IF \E i \in 1..Len(section) : QuotedAt(section, i)
    THEN LET i == CHOOSE a \in 1..Len(section) :
                      QuotedAt(section, a) /\ \A b \in 1..(a - 1) : ~QuotedAt(section, b)
             j == CHOOSE a \in (i + 2)..Len(section) :
                      section[a] = QUOTE /\ \A k \in (i + 1)..(a - 1) : section[k] # QUOTE
         IN SubSeq(section, i + 1, j - 1)
    ELSE <<>>

\* re.search(literal + r'(\d+)', section): group(1) of the leftmost match, <<>> if none
LiteralDigitsAt(section, literal, i) ==
    section[i] = literal /\ i < Len(section) /\ section[i + 1] \in Digits

\* variant: group(1) of the rightmost match
digits_match_last(section, literal) ==
    IF \E i \in 1..Len(section) : LiteralDigitsAt(section, literal, i)
    THEN LET i == CHOOSE a \in 1..Len(section) :
                      LiteralDigitsAt(section, literal, a)
                      /\ \A b \in (a + 1)..Len(section) :
                             ~LiteralDigitsAt(section, literal, b)
         IN DigitRun(section, i + 1)
    ELSE <<>>

digits_match(section, literal) ==
    IF \E i \in 1..Len(section) : LiteralDigitsAt(section, literal, i)
    THEN LET i == CHOOSE a \in 1..Len(section) :
                      LiteralDigitsAt(section, literal, a)
                      /\ \A b \in 1..(a - 1) : ~LiteralDigitsAt(section, literal, b)
         IN DigitRun(section, i + 1)
    ELSE <<>>

----------------------------------------------------------------------------
(* GeminiQueryProcessor._parse_search_response *)

QueryResult(snippet, source_note, relevance_score) ==
    [snippet |-> snippet, source_note |-> source_note, relevance_score |-> relevance_score]

\* the body of the for loop: the results one section appends (none or one)
parse_section(section, clinical_notes) ==
    LET snippet == snippet_match(section)
        note_id == digits_match(section, NOTE_ID)
        relevance == digits_match(section, RELEVANCE)
        note_index == int(note_id)
        relevance_score == IF relevance # <<>> THEN int(relevance) ELSE 5
    IN IF snippet = <<>> THEN <<>>
       ELSE IF note_id = <<>> THEN <<>>
       ELSE IF note_index >= Len(clinical_notes) THEN <<>>
       ELSE <<QueryResult(snippet, clinical_notes[note_index + 1], relevance_score)>>

\* variant: the first section that yields nothing ends the loop
RECURSIVE parse_sections_abort(_, _)
parse_sections_abort(sections, clinical_notes) ==
    IF sections = <<>> THEN <<>>
    ELSE IF parse_section(Head(sections), clinical_notes) = <<>> THEN <<>>
    ELSE parse_section(Head(sections), clinical_notes)
         \o parse_sections_abort(Tail(sections), clinical_notes)

RECURSIVE parse_sections(_, _)
parse_sections(sections, clinical_notes) ==
    IF sections = <<>> THEN <<>>
    ELSE parse_section(Head(sections), clinical_notes)
         \o parse_sections(Tail(sections), clinical_notes)

\* variant: the sort without reverse=True, lowest first
RECURSIVE sort_by_relevance_ascending(_)
sort_by_relevance_ascending(rs) ==
    IF rs = <<>> THEN <<>>
    ELSE LET sorted == sort_by_relevance_ascending(SubSeq(rs, 1, Len(rs) - 1))
             x == rs[Len(rs)]
             k == Cardinality({i \in 1..Len(sorted) :
                                  sorted[i].relevance_score <= x.relevance_score})
         IN SubSeq(sorted, 1, k) \o <<x>> \o SubSeq(sorted, k + 1, Len(sorted))

\* variant: highest first, but a result is placed before the results of
\* equal score that precede it in the input
RECURSIVE sort_by_relevance_ties_reversed(_)
sort_by_relevance_ties_reversed(rs) ==
    IF rs = <<>> THEN <<>>
    ELSE LET sorted == sort_by_relevance_ties_reversed(SubSeq(rs, 1, Len(rs) - 1))
             x == rs[Len(rs)]
             k == Cardinality({i \in 1..Len(sorted) :
                                  sorted[i].relevance_score > x.relevance_score})
         IN SubSeq(sorted, 1, k) \o <<x>> \o SubSeq(sorted, k + 1, Len(sorted))

\* list.sort(key=relevance_score, reverse=True): stable, highest first
RECURSIVE sort_by_relevance(_)
sort_by_relevance(rs) ==
    IF rs = <<>> THEN <<>>
    ELSE LET sorted == sort_by_relevance(SubSeq(rs, 1, Len(rs) - 1))
             x == rs[Len(rs)]
             k == Cardinality({i \in 1..Len(sorted) :
                                  sorted[i].relevance_score >= x.relevance_score})
         IN SubSeq(sorted, 1, k) \o <<x>> \o SubSeq(sorted, k + 1, Len(sorted))

_parse_search_response(text, clinical_notes) ==
    sort_by_relevance(parse_sections(Tail(split(text, SNIPPET)), clinical_notes))

----------------------------------------------------------------------------
(* GeminiQueryProcessor.generate_summary and _extract_evidence_type.       *)
(* A query is a sequence of characters.  A summary is the sequence of the  *)
(* pieces the f-string concatenates.                                       *)

Upper == <<"A", "B", "C", "D", "E", "F", "G", "H", "I", "J", "K", "L", "M", "N", "O", "P", "Q", "R", "S", "T", "U", "V", "W", "X", "Y", "Z">>
Lower == <<"a", "b", "c", "d", "e", "f", "g", "h", "i", "j", "k", "l", "m", "n", "o", "p", "q", "r", "s", "t", "u", "v", "w", "x", "y", "z">>

\* str.lower()
lower(text) ==
    [i \in 1..Len(text) |->
        IF \E k \in 1..Len(Upper) : Upper[k] = text[i]
        THEN Lower[CHOOSE k \in 1..Len(Upper) : Upper[k] = text[i]]
        ELSE text[i]]

\* the dict literal, in insertion order
evidence_mapping ==
    <<
       [keyword |-> <<"d", "e", "p", "r", "e", "s", "s", "i", "o", "n">>,
        description |-> "symptoms of depression"],
       [keyword |-> <<"m", "o", "o", "d">>,
        description |-> "mood-related symptoms"],
       [keyword |-> <<"f", "a", "l", "l">>,
        description |-> "fall risk or incidents"],
       [keyword |-> <<"a", "s", "s", "i", "s", "t">>,
        description |-> "assistance requirements"],
       [keyword |-> <<"t", "r", "a", "n", "s", "f", "e", "r">>,
        description |-> "transfer assistance needs"],
       [keyword |-> <<"c", "o", "g", "n", "i", "t", "i", "v", "e">>,
        description |-> "cognitive impairment"],
       [keyword |-> <<"b", "e", "h", "a", "v", "i", "o", "r">>,
        description |-> "behavioral symptoms"],
       [keyword |-> <<"p", "a", "i", "n">>,
        description |-> "pain indicators"],
       [keyword |-> <<"m", "e", "d", "i", "c", "a", "t", "i", "o", "n">>,
        description |-> "medication-related issues"]
    >>

\* the for loop over evidence_mapping.items(): None is ""
RECURSIVE scan_mapping(_, _)
scan_mapping(query_lower, k) ==
    IF k > Len(evidence_mapping) THEN ""
    ELSE IF Contains(query_lower, evidence_mapping[k].keyword)
         THEN evidence_mapping[k].description
         ELSE scan_mapping(query_lower, k + 1)

\* variant: the keyword that occurs first in the query text wins
_extract_evidence_type_text_order(q) ==
    LET query_lower == lower(q)
        Pos(k) == CHOOSE i \in 0..Len(query_lower) :
                      /\ SubSeq(query_lower, i + 1, i + Len(evidence_mapping[k].keyword))
                            = evidence_mapping[k].keyword
                      /\ \A j \in 0..(i - 1) :
                            SubSeq(query_lower, j + 1, j + Len(evidence_mapping[k].keyword))
                               # evidence_mapping[k].keyword
        hits == {k \in 1..Len(evidence_mapping) :
                    Contains(query_lower, evidence_mapping[k].keyword)}
    IN IF hits = {} THEN ""
       ELSE evidence_mapping[CHOOSE k \in hits : \A h \in hits : Pos(k) <= Pos(h)].description

_extract_evidence_type(q) == scan_mapping(lower(q), 1)

\* str(count): the decimal digits of a natural number
DigitStr == <<"0", "1", "2", "3", "4", "5", "6", "7", "8", "9">>
RECURSIVE str(_)
str(n) ==
    IF n < 10 THEN <<DigitStr[n + 1]>>
    ELSE str(n \div 10) \o <<DigitStr[(n % 10) + 1]>>

NoEvidenceSummary == <<"No relevant clinical evidence found for your query.">>
NoNotesSummary == <<"No clinical notes found for the specified time period.">>

\* variant: without the "if not results" case
generate_summary_no_empty_case(q, rs) ==
    LET count == Len(rs)
        evidence_type == _extract_evidence_type(q)
    IN IF evidence_type # ""
       THEN <<"I found ">> \o str(count)
            \o <<" notes that may indicate ", evidence_type, ":">>
       ELSE <<"I found ">> \o str(count) \o <<" relevant notes for your query:">>

generate_summary(q, rs) ==
    IF rs = <<>> THEN NoEvidenceSummary
    ELSE LET count == Len(rs)
             evidence_type == _extract_evidence_type(q)
         IN IF evidence_type # ""
            THEN <<"I found ">> \o str(count)
                 \o <<" notes that may indicate ", evidence_type, ":">>
            ELSE <<"I found ">> \o str(count) \o <<" relevant notes for your query:">>

----------------------------------------------------------------------------
(* Domain entities and the note repository *)

NoteType == {"Nursing", "Therapy", "CNA", "Social Work", "Physician"}

ClinicalNote(id, rid, content, note_type, created_at) ==
    [id |-> id, resident_id |-> rid, content |-> content,
     note_type |-> note_type, created_at |-> created_at]

\* resident is None (<<>>) or one Resident (<<r>>)
SearchResults(q, resident, rs, s) ==
    [query |-> q, resident |-> resident, results |-> rs, summary |-> s]

\* list.sort(key=created_at, reverse=True): stable, most recent first
RECURSIVE sort_by_date(_)
sort_by_date(ns) ==
    IF ns = <<>> THEN <<>>
    ELSE LET sorted == sort_by_date(SubSeq(ns, 1, Len(ns) - 1))
             x == ns[Len(ns)]
             k == Cardinality({i \in 1..Len(sorted) : sorted[i].created_at >= x.created_at})
         IN SubSeq(sorted, 1, k) \o <<x>> \o SubSeq(sorted, k + 1, Len(sorted))

\* variant: created_at > since_date
find_by_resident_id_after(all_notes, rid, since) ==
    LET OfResident(n) == n.resident_id = rid
        Recent(n) == n.created_at > since
    IN sort_by_date(SelectSeq(SelectSeq(all_notes, OfResident), Recent))

\* variant: without the resident_id comprehension
find_by_resident_id_any_resident(all_notes, rid, since) ==
    LET Recent(n) == n.created_at >= since
    IN sort_by_date(SelectSeq(all_notes, Recent))

\* the two list comprehensions, then the sort
find_by_resident_id(all_notes, rid, since) ==
    LET OfResident(n) == n.resident_id = rid
        Recent(n) == n.created_at >= since
    IN sort_by_date(SelectSeq(SelectSeq(all_notes, OfResident), Recent))

----------------------------------------------------------------------------
(* SearchResults.count and SearchResults.filter_by_note_type.  The value   *)
(* is the pair (the aggregate the method was called on, as the call leaves *)
(* it; the aggregate returned).                                            *)

count(aggregate) == Len(aggregate.results)

\* variant: the kept results are also written back to self.results
filter_by_note_type_in_place(self, note_type) ==
    LET Keep(r) == r.source_note.note_type = note_type
        filtered_results == SelectSeq(self.results, Keep)
    IN [self |-> [self EXCEPT !.results = filtered_results],
        value |-> SearchResults(self.query, self.resident, filtered_results,
                                <<"Filtered results for ", note_type, ": ">>
                                \o str(Len(filtered_results)) \o <<" notes found">>)]

\* variant: the summary states the number of results before filtering
filter_by_note_type_counts_all(self, note_type) ==
    LET Keep(r) == r.source_note.note_type = note_type
        filtered_results == SelectSeq(self.results, Keep)
    IN [self |-> self,
        value |-> SearchResults(self.query, self.resident, filtered_results,
                                <<"Filtered results for ", note_type, ": ">>
                                \o str(Len(self.results)) \o <<" notes found">>)]

filter_by_note_type(self, note_type) ==
    LET Keep(r) == r.source_note.note_type = note_type
        filtered_results == SelectSeq(self.results, Keep)
    IN [self |-> self,
        value |-> SearchResults(self.query, self.resident, filtered_results,
                                <<"Filtered results for ", note_type, ": ">>
                                \o str(Len(filtered_results)) \o <<" notes found">>)]

----------------------------------------------------------------------------
(* GeminiQueryProcessor.process_query: the generation call and the parse   *)
(* sit in one try block whose handler returns [].  The value is the pair   *)
(* (did an exception leave the method, the list returned), with the number *)
(* of model.generate_content calls made.                                   *)

\* variant: the blocks are numbered from 1
_prepare_context_one_based(clinical_notes) ==
    [k \in 1..Len(clinical_notes) |->
        [label |-> <<"NOTE_">> \o str(k),
         note_type |-> clinical_notes[k].note_type,
         created_at |-> clinical_notes[k].created_at,
         content |-> clinical_notes[k].content]]

\* the blocks joined into the context: for i, note in enumerate(clinical_notes)
_prepare_context(clinical_notes) ==
    [k \in 1..Len(clinical_notes) |->
        [label |-> <<"NOTE_">> \o str(k - 1),
         note_type |-> clinical_notes[k].note_type,
         created_at |-> clinical_notes[k].created_at,
         content |-> clinical_notes[k].content]]

\* variant: without the try block
process_query_uncaught(failed, text, clinical_notes) ==
    IF failed
    THEN [raised |-> TRUE, value |-> <<>>, calls |-> 1]
    ELSE [raised |-> FALSE, value |-> _parse_search_response(text, clinical_notes),
          calls |-> 1]

\* variant: a failed generation call is tried once more before giving up
process_query_retry(failed, text, clinical_notes) ==
    IF failed
    THEN [raised |-> FALSE, value |-> <<>>, calls |-> 2]
    ELSE [raised |-> FALSE, value |-> _parse_search_response(text, clinical_notes),
          calls |-> 1]

process_query(failed, text, clinical_notes) ==
    IF failed
    THEN [raised |-> FALSE, value |-> <<>>, calls |-> 1]
    ELSE [raised |-> FALSE, value |-> _parse_search_response(text, clinical_notes),
          calls |-> 1]

\* variant: execute without the early return
no_notes_never(ns) == FALSE

\* "if not notes" in execute
no_notes(ns) == ns = <<>>

lookback_days == 14

----------------------------------------------------------------------------
(* Inputs *)

SampleNotes ==
    << ClinicalNote("NOTE_001", "RES001", <<"b", "c">>, "CNA", 6),
       ClinicalNote("NOTE_002", "RES001", <<"a", "b">>, "Nursing", 19),
       ClinicalNote("NOTE_003", "RES001", <<"a">>, "Therapy", 3),
       ClinicalNote("NOTE_004", "RES002", <<"c">>, "Nursing", 20) >>

\* the repository's contents: a prefix of the sample notes (none .. all)
Stores == {SubSeq(SampleNotes, 1, k) : k \in 0..Len(SampleNotes)}

ResidentIds == {"RES001", "RES002", "RES999"}

\* datetime.now(), in days
Times == {20, 21}

Fragments(snippets, note_ids, relevances) ==
    {s \o n \o r : s \in snippets, n \in note_ids, r \in relevances}

\* replies: text before the first SNIPPET:, then up to n fragments
RECURSIVE FragmentSeqs(_, _)
FragmentSeqs(pool, n) ==
    IF n = 0 THEN {<<>>}
    ELSE LET shorter == FragmentSeqs(pool, n - 1)
         IN shorter \cup {<<SNIPPET>> \o f \o rest : f \in pool, rest \in shorter}

Replies(preambles, pool, n) ==
    {p \o fs : p \in preambles, fs \in FragmentSeqs(pool, n)}

PipelineReplies ==
    Replies({<<>>},
            Fragments({<<>>, <<QUOTE, "a", QUOTE>>},
                      {<<NOTE_ID, "0">>, <<NOTE_ID, "1">>},
                      {<<>>, <<RELEVANCE, "9">>}),
            MaxFragments)

ParseReplies ==
    Replies({<<>>, <<QUOTE, "a", QUOTE, NOTE_ID, "0">>},
            Fragments({<<>>, <<QUOTE, "a", QUOTE>>, <<QUOTE, QUOTE>>},
                      {<<>>, <<NOTE_ID, "0">>, <<NOTE_ID, "1">>, <<NOTE_ID, "5">>},
                      {<<>>, <<RELEVANCE, "9">>, <<RELEVANCE, "1", "5">>}),
            MaxFragments)

ParseNoteLists == {SubSeq(SampleNotes, 1, k) : k \in 0..2}

Words ==
    { <<"f", "a", "l", "l", "s">>,
      <<"P", "a", "i", "n">>,
      <<"M", "O", "O", "D">>,
      <<"c", "h", "a", "r", "t">> }

RECURSIVE QueriesOf(_)
QueriesOf(n) ==
    IF n = 0 THEN {<<>>}
    ELSE LET shorter == QueriesOf(n - 1)
         IN shorter \cup Words
            \cup {q \o <<" ">> \o w : q \in shorter \ {<<>>}, w \in Words}

Queries == QueriesOf(MaxQueryWords)

PipelineQueries ==
    { <<"f", "a", "l", "l", "s">>,
      <<"P", "a", "i", "n">> \o <<" ">> \o <<"f", "a", "l", "l", "s">>,
      <<"c", "h", "a", "r", "t">> }

SummaryResultLists ==
    {[i \in 1..n |-> QueryResult(<<"a">>, SampleNotes[2], 5)] : n \in 0..MaxFragments}

----------------------------------------------------------------------------
(* MockResidentRepository and TalkToChartController.search_clinical_notes *)

Resident(id, name, room_number, admission_date) ==
    [id |-> id, name |-> name, room_number |-> room_number,
     admission_date |-> admission_date]

\* MockResidentRepository._residents, in insertion order (dates in days)
Residents ==
    << Resident("RES001", "Mary Johnson", "101A", -10),
       Resident("RES002", "Robert Williams", "102B", -25),
       Resident("RES003", "Dorothy Smith", "103A", 0) >>

\* dict.get(resident_id): None (<<>>) or the resident (<<r>>)
find_by_id(residents, rid) ==
    IF \E k \in 1..Len(residents) : residents[k].id = rid
    THEN <<residents[CHOOSE k \in 1..Len(residents) : residents[k].id = rid]>>
    ELSE <<>>

\* variant: the aggregate of execute is passed on as it is
search_clinical_notes_unattached(res, resident) == res

\* the SearchResults the controller builds from execute's value and the resident
search_clinical_notes(res, resident) ==
    SearchResults(res.query, resident, res.results, res.summary)

\* no session is running
SessionOff == [pc |-> "off"]

----------------------------------------------------------------------------
(* The pipeline: SearchClinicalNotesUseCase.execute, one call at a time *)

Idle ==
    /\ pc = "idle"
    /\ resident_id = ""
    /\ query = <<>>
    /\ since_date = 0
    /\ notes = <<>>
    /\ gen_failed = FALSE
    /\ response_text = <<>>
    /\ results = <<>>
    /\ summary = <<>>
    /\ raised = FALSE
    /\ returned = <<>>
    /\ ai_calls = <<>>
    /\ call_log = <<>>
    /\ controller_result = <<>>
    /\ context = <<>>

\* no filter call, no concurrent call and no session
OthersIdle ==
    /\ filter_arg = ""
    /\ filtered = <<>>
    /\ threads = <<>>
    /\ session = SessionOff

Init ==
    /\ repo_notes \in Stores
    /\ Idle
    /\ OthersIdle

\* execute is entered: since_date and the retrieval
Retrieve ==
    /\ pc = "idle"
    /\ \E rid \in ResidentIds, q \in PipelineQueries, now \in Times :
          /\ resident_id' = rid
          /\ query' = q
          /\ since_date' = now - lookback_days
          /\ notes' = find_by_resident_id(repo_notes, rid, now - lookback_days)
    /\ call_log' = Append(call_log, "find_by_resident_id")
    /\ pc' = "retrieved"
    /\ UNCHANGED <<repo_notes, gen_failed, response_text, results, summary,
                   raised, returned, ai_calls, controller_result, context, other_vars>>

\* the early return of execute
ReturnNoNotes ==
    /\ pc = "retrieved"
    /\ no_notes(notes)
    /\ returned' = <<SearchResults(query, <<>>, <<>>, NoNotesSummary)>>
    /\ pc' = "done"
    /\ UNCHANGED <<repo_notes, resident_id, query, since_date, notes, gen_failed,
                   response_text, results, summary, raised, ai_calls,
                   call_log, controller_result, context, other_vars>>

\* self._ai_processor.process_query(query, notes): the service fails or replies
ProcessQuery ==
    /\ pc = "retrieved"
    /\ ~no_notes(notes)
    /\ \E failed \in BOOLEAN :
          \E text \in (IF failed THEN {<<>>} ELSE PipelineReplies) :
             LET r == process_query(failed, text, notes)
             IN /\ gen_failed' = failed
                /\ response_text' = text
                /\ results' = r.value
                /\ raised' = r.raised
                /\ pc' = IF r.raised THEN "done" ELSE "processed"
                /\ call_log' = call_log \o [k \in 1..r.calls |-> "generate_content"]
    /\ context' = _prepare_context(notes)
    /\ ai_calls' = Append(ai_calls, "process_query")
    /\ UNCHANGED <<repo_notes, resident_id, query, since_date, notes, summary, returned,
                   controller_result, other_vars>>

\* self._ai_processor.generate_summary(query, results)
GenerateSummary ==
    /\ pc = "processed"
    /\ summary' = generate_summary(query, results)
    /\ ai_calls' = Append(ai_calls, "generate_summary")
    /\ call_log' = Append(call_log, "generate_summary")
    /\ pc' = "summarized"
    /\ UNCHANGED <<repo_notes, resident_id, query, since_date, notes, gen_failed,
                   response_text, results, raised, returned, controller_result, context, other_vars>>

\* the final return of execute
ReturnResults ==
    /\ pc = "summarized"
    /\ returned' = <<SearchResults(query, <<>>, results, summary)>>
    /\ pc' = "done"
    /\ UNCHANGED <<repo_notes, resident_id, query, since_date, notes, gen_failed,
                   response_text, results, summary, raised, ai_calls,
                   call_log, controller_result, context, other_vars>>

\* search_clinical_notes: execute has returned, the resident is looked up and attached
AttachResident ==
    /\ pc = "done"
    /\ ~raised
    /\ controller_result' =
          <<search_clinical_notes(returned[1], find_by_id(Residents, resident_id))>>
    /\ pc' = "attached"
    /\ UNCHANGED <<repo_notes, resident_id, query, since_date, notes, gen_failed,
                   response_text, results, summary, raised, returned, ai_calls,
                   call_log, context, other_vars>>

\* the caller is free to call execute again; the locals of the last call are gone
NextCall ==
    /\ pc \in {"done", "attached"}
    /\ pc' = "idle"
    /\ resident_id' = ""
    /\ query' = <<>>
    /\ since_date' = 0
    /\ notes' = <<>>
    /\ gen_failed' = FALSE
    /\ response_text' = <<>>
    /\ results' = <<>>
    /\ summary' = <<>>
    /\ raised' = FALSE
    /\ returned' = <<>>
    /\ ai_calls' = <<>>
    /\ call_log' = <<>>
    /\ controller_result' = <<>>
    /\ context' = <<>>
    /\ UNCHANGED <<repo_notes, other_vars>>

Next ==
    \/ Retrieve
    \/ ReturnNoNotes
    \/ ProcessQuery
    \/ GenerateSummary
    \/ ReturnResults
    \/ AttachResident
    \/ NextCall

Spec == Init /\ [][Next]_vars

----------------------------------------------------------------------------
(* process_query applied to every bounded reply and note list *)

InitParse ==
    /\ repo_notes = <<>>
    /\ pc = "parse_input"
    /\ resident_id = ""
    /\ query = <<>>
    /\ since_date = 0
    /\ notes \in ParseNoteLists
    /\ gen_failed \in BOOLEAN
    /\ response_text \in (IF gen_failed THEN {<<>>} ELSE ParseReplies)
    /\ results = <<>>
    /\ summary = <<>>
    /\ raised = FALSE
    /\ returned = <<>>
    /\ ai_calls = <<>>
    /\ call_log = <<>>
    /\ controller_result = <<>>
    /\ context = <<>>
    /\ OthersIdle

ApplyProcessQuery ==
    /\ pc = "parse_input"
    /\ LET r == process_query(gen_failed, response_text, notes)
       IN /\ results' = r.value
          /\ raised' = r.raised
    /\ context' = _prepare_context(notes)
    /\ pc' = "parse_done"
    /\ UNCHANGED <<repo_notes, resident_id, query, since_date, notes, gen_failed,
                   response_text, summary, returned, ai_calls,
                   call_log, controller_result, other_vars>>

NextParse == ApplyProcessQuery

SpecParse == InitParse /\ [][NextParse]_vars

----------------------------------------------------------------------------
(* _parse_search_response on replies of one fragment, over the shapes a    *)
(* fragment can take: repeated, empty, unterminated and misplaced parts.   *)

FragmentSnippets ==
    { <<>>,
      <<QUOTE, "a", QUOTE>>,
      <<QUOTE, QUOTE>>,
      <<QUOTE, "a">>,
      <<QUOTE, "a", QUOTE, QUOTE, "b", QUOTE>>,
      <<QUOTE, QUOTE, "a", QUOTE>>,
      <<QUOTE, NOTE_ID, "1", RELEVANCE, "7", QUOTE>> }

FragmentNoteIds ==
    { <<>>,
      <<NOTE_ID, "0">>,
      <<NOTE_ID, "1">>,
      <<NOTE_ID, "5">>,
      <<NOTE_ID, "0", "1">>,
      <<NOTE_ID, "1", "0">>,
      <<NOTE_ID, "1", NOTE_ID, "0">>,
      <<NOTE_ID, "x", NOTE_ID, "0">> }

FragmentRelevances ==
    { <<>>,
      <<RELEVANCE, "9">>,
      <<RELEVANCE, "0">>,
      <<RELEVANCE, "1", "5">>,
      <<RELEVANCE, "9", RELEVANCE, "3">>,
      <<RELEVANCE, "x", RELEVANCE, "3">> }

\* the parts in the order the prompt asks for, and in reverse order
FragmentPool ==
    Fragments(FragmentSnippets, FragmentNoteIds, FragmentRelevances)
    \cup {r \o n \o sn : r \in FragmentRelevances, n \in FragmentNoteIds,
                          sn \in FragmentSnippets}
    \cup { <<QUOTE, QUOTE, NOTE_ID, "0", QUOTE, "b", QUOTE>> }

FragmentReplies ==
    {p \o <<SNIPPET>> \o f :
        p \in {<<>>, <<QUOTE, "b", QUOTE, NOTE_ID, "1", RELEVANCE, "8">>},
        f \in FragmentPool}

InitFragment ==
    /\ repo_notes = <<>>
    /\ pc = "parse_input"
    /\ resident_id = ""
    /\ query = <<>>
    /\ since_date = 0
    /\ notes \in ParseNoteLists
    /\ gen_failed = FALSE
    /\ response_text \in FragmentReplies
    /\ results = <<>>
    /\ summary = <<>>
    /\ raised = FALSE
    /\ returned = <<>>
    /\ ai_calls = <<>>
    /\ call_log = <<>>
    /\ controller_result = <<>>
    /\ context = <<>>
    /\ OthersIdle

SpecFragment == InitFragment /\ [][NextParse]_vars

----------------------------------------------------------------------------
(* generate_summary applied to every bounded query and result list *)

InitSummary ==
    /\ repo_notes = <<>>
    /\ pc = "summary_input"
    /\ resident_id = ""
    /\ query \in Queries
    /\ since_date = 0
    /\ notes = <<>>
    /\ gen_failed = FALSE
    /\ response_text = <<>>
    /\ results \in SummaryResultLists
    /\ summary = <<>>
    /\ raised = FALSE
    /\ returned = <<>>
    /\ ai_calls = <<>>
    /\ call_log = <<>>
    /\ controller_result = <<>>
    /\ context = <<>>
    /\ OthersIdle

ApplyGenerateSummary ==
    /\ pc = "summary_input"
    /\ summary' = generate_summary(query, results)
    /\ pc' = "summary_done"
    /\ UNCHANGED <<repo_notes, resident_id, query, since_date, notes, gen_failed,
                   response_text, results, raised, returned, ai_calls,
                   call_log, controller_result, context, other_vars>>

NextSummary == ApplyGenerateSummary

SpecSummary == InitSummary /\ [][NextSummary]_vars

----------------------------------------------------------------------------
(* filter_by_note_type applied, any number of times, to a bounded aggregate *)

\* result lists as the parse leaves them: up to n results, highest score first
RECURSIVE ResultSeqs(_, _)
ResultSeqs(pool, n) ==
    IF n = 0 THEN {<<>>}
    ELSE LET shorter == ResultSeqs(pool, n - 1)
         IN shorter \cup {<<r>> \o rest : r \in pool, rest \in shorter}

FilterResultLists ==
    {sort_by_relevance(rs) :
        rs \in ResultSeqs({QueryResult(<<"a">>, SampleNotes[k], score) :
                              k \in 1..Len(SampleNotes), score \in {5, 9}},
                          MaxResults)}

\* the aggregates execute and the controller produce from such lists
FilterAggregates ==
    {SearchResults(<<"f", "a", "l", "l", "s">>, resident, rs,
                   generate_summary(<<"f", "a", "l", "l", "s">>, rs)) :
        resident \in {<<>>, <<Residents[1]>>}, rs \in FilterResultLists}

InitFilter ==
    /\ repo_notes = <<>>
    /\ pc = "filter_input"
    /\ resident_id = ""
    /\ query = <<>>
    /\ since_date = 0
    /\ notes = <<>>
    /\ gen_failed = FALSE
    /\ response_text = <<>>
    /\ results = <<>>
    /\ summary = <<>>
    /\ raised = FALSE
    /\ returned \in {<<a>> : a \in FilterAggregates}
    /\ ai_calls = <<>>
    /\ call_log = <<>>
    /\ controller_result = <<>>
    /\ context = <<>>
    /\ OthersIdle

\* returned[1].filter_by_note_type(note_type)
FilterByNoteType ==
    /\ pc \in {"filter_input", "filter_done"}
    /\ \E note_type \in NoteType :
          LET r == filter_by_note_type(returned[1], note_type)
          IN /\ returned' = <<r.self>>
             /\ filtered' = <<r.value>>
             /\ filter_arg' = note_type
    /\ pc' = "filter_done"
    /\ UNCHANGED <<repo_notes, resident_id, query, since_date, notes, gen_failed,
                   response_text, results, summary, raised, ai_calls,
                   call_log, controller_result, context, threads, session>>

NextFilter == FilterByNoteType

SpecFilter == InitFilter /\ [][NextFilter]_vars

----------------------------------------------------------------------------
(* Concurrent execute calls on one SearchClinicalNotesUseCase and one      *)
(* GeminiQueryProcessor.  Both objects only hold what __init__ set; what a *)
(* call computes (since_date, notes, results, summary) lives in the frame  *)
(* of that call.  The generation service answers every call on its own.    *)

Calls == 1..NumCalls

\* variant: what a call computes is kept in attributes of the shared object
frame_shared(t) == 1

\* the frame that holds the locals of call t
frame(t) == t

ConcQueries == {<<"f", "a", "l", "l", "s">>, <<"c", "h", "a", "r", "t">>}

ConcTimes == {20}

ConcReplies ==
    { <<SNIPPET, QUOTE, "a", QUOTE, NOTE_ID, "0", RELEVANCE, "9">>,
      <<SNIPPET, QUOTE, "a", QUOTE, NOTE_ID, "1",
        SNIPPET, QUOTE, "a", QUOTE, NOTE_ID, "0">> }

NewFrame ==
    [pc |-> "idle", resident_id |-> "", query |-> <<>>, now |-> 0,
     since_date |-> 0, notes |-> <<>>, gen_failed |-> FALSE, response_text |-> <<>>,
     results |-> <<>>, summary |-> <<>>, raised |-> FALSE, returned |-> <<>>]

InitConc ==
    /\ repo_notes = SampleNotes
    /\ Idle
    /\ filter_arg = ""
    /\ filtered = <<>>
    /\ threads = [t \in Calls |-> NewFrame]
    /\ session = SessionOff

conc_unchanged ==
    <<repo_notes, pc, resident_id, query, since_date, notes, gen_failed,
      response_text, results, summary, raised, returned, ai_calls,
      call_log, controller_result, context, filter_vars, session>>

ConcRetrieve(t) ==
    /\ threads[t].pc = "idle"
    /\ \E rid \in ResidentIds, q \in ConcQueries, now \in ConcTimes :
          threads' = [threads EXCEPT
                         ![t].resident_id = rid,
                         ![t].query = q,
                         ![t].now = now,
                         ![t].pc = "retrieved",
                         ![frame(t)].since_date = now - lookback_days,
                         ![frame(t)].notes =
                             find_by_resident_id(repo_notes, rid, now - lookback_days)]
    /\ UNCHANGED conc_unchanged

ConcReturnNoNotes(t) ==
    /\ threads[t].pc = "retrieved"
    /\ no_notes(threads[frame(t)].notes)
    /\ threads' = [threads EXCEPT
                      ![t].returned =
                          <<SearchResults(threads[t].query, <<>>, <<>>, NoNotesSummary)>>,
                      ![t].pc = "done"]
    /\ UNCHANGED conc_unchanged

ConcProcessQuery(t) ==
    /\ threads[t].pc = "retrieved"
    /\ ~no_notes(threads[frame(t)].notes)
    /\ \E failed \in BOOLEAN :
          \E text \in (IF failed THEN {<<>>} ELSE ConcReplies) :
             LET r == process_query(failed, text, threads[frame(t)].notes)
             IN threads' = [threads EXCEPT
                               ![t].gen_failed = failed,
                               ![t].response_text = text,
                               ![t].raised = r.raised,
                               ![t].pc = IF r.raised THEN "done" ELSE "processed",
                               ![frame(t)].results = r.value]
    /\ UNCHANGED conc_unchanged

ConcGenerateSummary(t) ==
    /\ threads[t].pc = "processed"
    /\ threads' = [threads EXCEPT
                      ![t].pc = "summarized",
                      ![frame(t)].summary =
                          generate_summary(threads[t].query, threads[frame(t)].results)]
    /\ UNCHANGED conc_unchanged

ConcReturnResults(t) ==
    /\ threads[t].pc = "summarized"
    /\ threads' = [threads EXCEPT
                      ![t].returned =
                          <<SearchResults(threads[t].query, <<>>,
                                          threads[frame(t)].results,
                                          threads[frame(t)].summary)>>,
                      ![t].pc = "done"]
    /\ UNCHANGED conc_unchanged

NextConc ==
    \E t \in Calls :
        \/ ConcRetrieve(t)
        \/ ConcReturnNoNotes(t)
        \/ ConcProcessQuery(t)
        \/ ConcGenerateSummary(t)
        \/ ConcReturnResults(t)

SpecConc == InitConc /\ [][NextConc]_vars

----------------------------------------------------------------------------
(* run_interactive_session: the loop over resident selection and chat.     *)
(* session holds the locals of the function, what the presenter showed     *)
(* last, and the resident ids search_clinical_notes was called with.       *)

\* SearchClinicalNotesUseCase.execute as one call
execute(all_notes, rid, q, now, failed, text) ==
    LET ns == find_by_resident_id(all_notes, rid, now - lookback_days)
        r  == process_query(failed, text, ns)
    IN IF no_notes(ns)
       THEN SearchResults(q, <<>>, <<>>, NoNotesSummary)
       ELSE SearchResults(q, <<>>, r.value, generate_summary(q, r.value))

\* variant: the typed id is not looked up, the first listed resident is taken
next_resident_unchecked(residents, rid) == <<residents[1]>>

\* next((r for r in residents if r.id == resident_id), None)
next_resident(residents, rid) ==
    IF \E k \in 1..Len(residents) : residents[k].id = rid
    THEN LET first == CHOOSE k \in 1..Len(residents) :
                          /\ residents[k].id = rid
                          /\ \A j \in 1..(k - 1) : residents[j].id # rid
         IN <<residents[first]>>
    ELSE <<>>

\* response.lower() in ['y', 'yes', '']
confirm_continue(response) ==
    lower(response) \in {<<"y">>, <<"y", "e", "s">>, <<>>}

display_error(message) == [kind |-> "error", text |-> message]

display_info(message) == [kind |-> "info", text |-> message]

NotFoundMessage(rid) == <<"Resident ID '", rid, "' not found.">>

UnexpectedError == <<"Unexpected error: ", "e">>

TypedIds == {"", "RES001", "RES002", "RES999", "res001"}

TypedQueries == {<<>>, <<"f", "a", "l", "l", "s">>}

TypedAnswers == {<<>>, <<"y">>, <<"Y", "e", "s">>, <<"n">>, <<"n", "o">>}

SessionReplies == {<<SNIPPET, QUOTE, "a", QUOTE, NOTE_ID, "0", RELEVANCE, "9">>}

SessionNow == 20

InitSession ==
    /\ repo_notes = SampleNotes
    /\ Idle
    /\ filter_arg = ""
    /\ filtered = <<>>
    /\ threads = <<>>
    /\ session = [pc |-> "list", residents |-> <<>>, resident_id |-> "",
                  resident |-> <<>>, query |-> <<>>, results |-> <<>>,
                  shown |-> [kind |-> "welcome", text |-> <<>>],
                  response |-> <<>>, searched |-> {}]

session_unchanged ==
    <<repo_notes, pc, resident_id, query, since_date, notes, gen_failed,
      response_text, results, summary, raised, returned, ai_calls,
      call_log, controller_result, context, filter_vars, threads>>

\* variant: the handler of Exception leaves the loop
Unexpected_break ==
    [session EXCEPT !.shown = display_error(UnexpectedError), !.pc = "ended"]

\* except Exception: display_error, continue
Unexpected ==
    [session EXCEPT !.shown = display_error(UnexpectedError), !.pc = "list"]

\* except KeyboardInterrupt: display_info, break
Interrupted ==
    [session EXCEPT !.shown = display_info(<<"\nSession interrupted by user.">>),
                    !.pc = "ended"]

ListResidents ==
    /\ session.pc = "list"
    /\ \/ session' = [session EXCEPT
                         !.residents = Residents,
                         !.shown = [kind |-> "residents", text |-> Residents],
                         !.pc = "select"]
       \/ session' = Unexpected
       \/ session' = Interrupted
    /\ UNCHANGED session_unchanged

SelectResident ==
    /\ session.pc = "select"
    /\ \/ \E typed \in TypedIds :
             session' = IF typed = ""
                        THEN [session EXCEPT
                                 !.resident_id = typed,
                                 !.shown = display_info(<<"Session ended.">>),
                                 !.pc = "ended"]
                        ELSE [session EXCEPT !.resident_id = typed, !.pc = "validate"]
       \/ session' = Unexpected
       \/ session' = Interrupted
    /\ UNCHANGED session_unchanged

ValidateResident ==
    /\ session.pc = "validate"
    /\ LET resident == next_resident(session.residents, session.resident_id)
       IN session' =
            IF resident = <<>>
            THEN [session EXCEPT
                     !.resident = resident,
                     !.shown = display_error(NotFoundMessage(session.resident_id)),
                     !.pc = "list"]
            ELSE [session EXCEPT
                     !.resident = resident,
                     !.shown = display_info(<<"Starting chat session for ",
                                              resident[1]>>),
                     !.pc = "query"]
    /\ UNCHANGED session_unchanged

PromptQuery ==
    /\ session.pc = "query"
    /\ \/ \E typed \in TypedQueries :
             session' =
                IF typed = <<>>
                THEN [session EXCEPT
                         !.query = typed,
                         !.shown = display_info(
                             <<"Select another resident or press Enter to exit.">>),
                         !.pc = "list"]
                ELSE [session EXCEPT
                         !.query = typed,
                         !.shown = display_info(<<"Searching clinical notes...">>),
                         !.pc = "search"]
       \/ session' = Unexpected
       \/ session' = Interrupted
    /\ UNCHANGED session_unchanged

SearchNotes ==
    /\ session.pc = "search"
    /\ \/ \E failed \in BOOLEAN :
             \E text \in (IF failed THEN {<<>>} ELSE SessionReplies) :
                session' = [session EXCEPT
                    !.results =
                        <<search_clinical_notes(
                              execute(repo_notes, session.resident_id, session.query,
                                      SessionNow, failed, text),
                              find_by_id(Residents, session.resident_id))>>,
                    !.searched = session.searched \cup {session.resident_id},
                    !.pc = "display"]
       \/ session' = [Unexpected EXCEPT
                         !.searched = session.searched \cup {session.resident_id}]
       \/ session' = [Interrupted EXCEPT
                         !.searched = session.searched \cup {session.resident_id}]
    /\ UNCHANGED session_unchanged

DisplayResults ==
    /\ session.pc = "display"
    /\ \/ session' = [session EXCEPT
                         !.shown = [kind |-> "results", text |-> session.results[1]],
                         !.pc = "confirm"]
       \/ session' = Unexpected
       \/ session' = Interrupted
    /\ UNCHANGED session_unchanged

ConfirmContinue ==
    /\ session.pc = "confirm"
    /\ \/ \E response \in TypedAnswers :
             session' =
                IF confirm_continue(response)
                THEN [session EXCEPT !.response = response, !.pc = "query"]
                ELSE [session EXCEPT
                         !.response = response,
                         !.shown = display_info(
                             <<"Select another resident or press Enter to exit.">>),
                         !.pc = "list"]
       \/ session' = Unexpected
       \/ session' = Interrupted
    /\ UNCHANGED session_unchanged

NextSession ==
    \/ ListResidents
    \/ SelectResident
    \/ ValidateResident
    \/ PromptQuery
    \/ SearchNotes
    \/ DisplayResults
    \/ ConfirmContinue

SpecSession == InitSession /\ [][NextSession]_vars

----------------------------------------------------------------------------
(* Properties *)

\* process_query has been called and has come back (or thrown)
AfterProcessQuery ==
    /\ pc \in {"processed", "summarized", "done"}
    /\ ai_calls # <<>>
    /\ ai_calls[1] = "process_query"

\* the results of the SearchResults that execute returned
ReturnedResults == IF returned = <<>> THEN <<>> ELSE returned[1].results

\* C1: process_query never raises to its caller; when the call to the
\* generation service fails, it returns an empty list.
C1_ProcessQueryNeverRaises ==
    AfterProcessQuery => (~raised /\ (gen_failed => results = <<>>))

C1_Witness ==
    pc = "processed" /\ gen_failed /\ ~raised /\ results = <<>> /\ notes # <<>>

\* C2: when the window holds a note and the generation call fails, execute
\* still returns a SearchResults, with results = [] and the summary
\* "No relevant clinical evidence found for your query.".
C2_FailureGivesNoEvidence ==
    (pc = "done" /\ notes # <<>> /\ gen_failed) =>
        /\ ~raised
        /\ returned =
              <<[query |-> query, resident |-> <<>>, results |-> <<>>,
                 summary |-> <<"No relevant clinical evidence found for your query.">>]>>

C2_Witness ==
    pc = "done" /\ notes # <<>> /\ gen_failed /\ returned # <<>>

\* C3: when the note store returns no notes (also for an unknown resident),
\* execute returns the query, no resident, no results and the summary
\* "No clinical notes found for the specified time period.", and calls
\* neither process_query nor generate_summary.
C3_NoNotesShortCircuits ==
    (pc = "done" /\ notes = <<>>) =>
        /\ ~raised
        /\ returned =
              <<[query |-> query, resident |-> <<>>, results |-> <<>>,
                 summary |-> <<"No clinical notes found for the specified time period.">>]>>
        /\ ai_calls = <<>>

C3_Witness ==
    /\ pc = "done" /\ notes = <<>> /\ returned # <<>>
    /\ resident_id = "RES999" /\ repo_notes # <<>>

\* the fragments of a reply: the text after each SNIPPET: token
FragmentsOf(text) == Tail(split(text, SNIPPET))

\* the reply without its i-th fragment (the token and the text after it)
RECURSIVE JoinFragments(_)
JoinFragments(fs) ==
    IF fs = <<>> THEN <<>> ELSE <<SNIPPET>> \o Head(fs) \o JoinFragments(Tail(fs))

WithoutFragment(text, i) ==
    LET fs == FragmentsOf(text)
    IN Head(split(text, SNIPPET))
       \o JoinFragments(SubSeq(fs, 1, i - 1) \o SubSeq(fs, i + 1, Len(fs)))

NoQuotedSubstring(f) ==
    ~ \E i, j \in 1..Len(f) :
         /\ i + 1 < j
         /\ f[i] = QUOTE
         /\ f[j] = QUOTE
         /\ \A k \in (i + 1)..(j - 1) : f[k] # QUOTE

NoNoteId(f) ==
    ~ \E i \in 1..(Len(f) - 1) : f[i] = NOTE_ID /\ f[i + 1] \in Digits

IndexOutOfRange(f, clinical_notes) ==
    ~NoNoteId(f) /\ int(digits_match(f, NOTE_ID)) >= Len(clinical_notes)

Malformed(f, clinical_notes) ==
    NoQuotedSubstring(f) \/ NoNoteId(f) \/ IndexOutOfRange(f, clinical_notes)

\* C4: a malformed fragment (no quoted substring, no NOTE_ID, or an index
\* beyond the supplied notes) yields no result and no error, and the results
\* are those of the reply with that fragment removed.
C4_MalformedFragmentIsLocal ==
    (pc = "parse_done" /\ ~gen_failed) =>
        \A i \in 1..Len(FragmentsOf(response_text)) :
            Malformed(FragmentsOf(response_text)[i], notes) =>
                /\ ~raised
                /\ _parse_search_response(<<SNIPPET>> \o FragmentsOf(response_text)[i], notes)
                      = <<>>
                /\ results = _parse_search_response(WithoutFragment(response_text, i), notes)

\* a fragment names NOTE_5 with two notes supplied, and a sibling still parses
C4_Witness ==
    /\ pc = "parse_done" /\ ~gen_failed /\ ~raised
    /\ Len(notes) = 2
    /\ \E i \in 1..Len(FragmentsOf(response_text)) :
          /\ ~NoQuotedSubstring(FragmentsOf(response_text)[i])
          /\ digits_match(FragmentsOf(response_text)[i], NOTE_ID) = <<"5">>
    /\ Len(results) = Len(FragmentsOf(response_text)) - 1
    /\ results # <<>>

\* C5: the list _parse_search_response returns is in non-increasing
\* relevance order.
C5_ResultsSortedDescending ==
    pc = "parse_done" =>
        \A i \in 1..(Len(results) - 1) :
            results[i].relevance_score >= results[i + 1].relevance_score

\* the reply lists a lower score before a higher one
C5_Witness ==
    /\ pc = "parse_done"
    /\ Len(results) >= 2
    /\ results[1].relevance_score > results[Len(results)].relevance_score
    /\ results # parse_sections(FragmentsOf(response_text), notes)

\* C6: every QueryResult parsed from a reply has relevance_score within
\* [0,1] (0..10 in tenths), whatever digits follow RELEVANCE:.
C6_RelevanceInUnitInterval ==
    pc = "parse_done" =>
        \A i \in 1..Len(results) :
            results[i].relevance_score >= 0 /\ results[i].relevance_score <= 10

\* C7: every QueryResult of process_query has a non-empty snippet that is a
\* substring of the content of its own source_note.
C7_SnippetIsQuoteOfSourceNote ==
    pc = "parse_done" =>
        \A i \in 1..Len(results) :
            /\ results[i].snippet # <<>>
            /\ Contains(results[i].source_note.content, results[i].snippet)

\* C8: with since = now - lookback_days (14), every note older than since is
\* absent from the notes execute retrieves and from the sources of the
\* returned results; the resident's notes with created_at >= since are kept.
C8_LookbackWindow ==
    pc \in {"retrieved", "processed", "summarized", "done"} =>
        /\ since_date \in {now - 14 : now \in Times}
        /\ \A i \in 1..Len(notes) : notes[i].created_at >= since_date
        /\ \A k \in 1..Len(repo_notes) :
              (repo_notes[k].resident_id = resident_id
                 /\ repo_notes[k].created_at >= since_date)
              => \E i \in 1..Len(notes) : notes[i] = repo_notes[k]
        /\ \A i \in 1..Len(ReturnedResults) :
              ReturnedResults[i].source_note.created_at >= since_date

\* the store holds an older note of the resident and one exactly at since
C8_Witness ==
    /\ pc = "done"
    /\ ReturnedResults # <<>>
    /\ \E k \in 1..Len(repo_notes) :
          repo_notes[k].resident_id = resident_id /\ repo_notes[k].created_at < since_date
    /\ \E i \in 1..Len(notes) : notes[i].created_at = since_date

\* C9: the notes execute hands to process_query all belong to resident_id,
\* and so does the source_note of every returned result.
C9_OnlyResidentsNotes ==
    pc \in {"retrieved", "processed", "summarized", "done"} =>
        /\ \A i \in 1..Len(notes) : notes[i].resident_id = resident_id
        /\ \A i \in 1..Len(ReturnedResults) :
              ReturnedResults[i].source_note.resident_id = resident_id

\* the store also holds a recent note of another resident
C9_Witness ==
    /\ pc = "done"
    /\ ReturnedResults # <<>>
    /\ \E k \in 1..Len(repo_notes) :
          repo_notes[k].resident_id # resident_id /\ repo_notes[k].created_at >= since_date

\* the table entries whose keyword occurs in the lower-cased query
KeywordHits(q) ==
    {k \in 1..Len(evidence_mapping) : Contains(lower(q), evidence_mapping[k].keyword)}

\* C10: for non-empty results the first table entry (depression, mood, fall,
\* assist, transfer, cognitive, behavior, pain, medication) whose keyword
\* occurs in the lower-cased query gives the phrase of
\* "I found {count} notes that may indicate {phrase}:"; with no keyword the
\* summary is "I found {count} relevant notes for your query:".
C10_FirstTableEntryWins ==
    (pc = "summary_done" /\ results # <<>>) =>
        /\ [k \in 1..Len(evidence_mapping) |-> evidence_mapping[k].keyword[1]]
              = <<"d", "m", "f", "a", "t", "c", "b", "p", "m">>
        /\ IF KeywordHits(query) = {}
           THEN summary = <<"I found ">> \o str(Len(results))
                             \o <<" relevant notes for your query:">>
           ELSE LET first == CHOOSE k \in KeywordHits(query) :
                                 \A h \in KeywordHits(query) : k <= h
                IN summary = <<"I found ">> \o str(Len(results))
                                \o <<" notes that may indicate ",
                                     evidence_mapping[first].description, ":">>

\* "Pain falls": pain comes first in the text, fall first in the table
C10_Witness ==
    /\ pc = "summary_done"
    /\ Len(results) = 2
    /\ query = <<"P", "a", "i", "n", " ", "f", "a", "l", "l", "s">>
    /\ summary = <<"I found ", "2", " notes that may indicate ",
                   "fall risk or incidents", ":">>

\* C11: filter_by_note_type is pure: a call leaves the aggregate it is called
\* on (query, resident, results, summary) as it was, after any number of
\* calls, and returns an aggregate of its own.
C11_FilterLeavesOriginalUnchanged ==
    [][pc' = "filter_done" => (returned' = returned /\ filtered' # <<>>)]_vars

\* a call that dropped two of three results, with the original intact
C11_Witness ==
    /\ pc = "filter_done"
    /\ returned \in {<<a>> : a \in FilterAggregates}
    /\ Len(returned[1].results) = 3
    /\ Len(filtered[1].results) = 1

\* the positions of the original's results whose note has the given type
TypedPositions(rs, note_type) ==
    {i \in 1..Len(rs) : rs[i].source_note.note_type = note_type}

\* C12: the aggregate filter_by_note_type returns holds exactly the original's
\* results of the given note type, in their original relative order (so still
\* descending), keeps query and resident, and its summary states the filtered
\* count, the count of the returned aggregate.
C12_FilterKeepsTypeInOrder ==
    pc = "filter_done" =>
        LET original == returned[1]
            f == filtered[1]
            P == TypedPositions(original.results, filter_arg)
            Kth(k) == CHOOSE i \in P : Cardinality({j \in P : j <= i}) = k
        IN /\ Len(f.results) = Cardinality(P)
           /\ \A k \in 1..Len(f.results) : f.results[k] = original.results[Kth(k)]
           /\ \A k \in 1..(Len(f.results) - 1) :
                 f.results[k].relevance_score >= f.results[k + 1].relevance_score
           /\ f.query = original.query
           /\ f.resident = original.resident
           /\ count(f) = Len(f.results)
           /\ f.summary = <<"Filtered results for ", filter_arg, ": ">>
                             \o str(count(f)) \o <<" notes found">>

\* two results of different scores kept, one of another type dropped
C12_Witness ==
    /\ pc = "filter_done"
    /\ Len(returned[1].results) = 3
    /\ Len(filtered[1].results) = 2
    /\ filtered[1].results[1].relevance_score > filtered[1].results[2].relevance_score
    /\ filtered[1].resident # <<>>
    /\ filtered[1].summary = <<"Filtered results for ", "Nursing", ": ", "2", " notes found">>

\* C13: execute returns its SearchResults with resident absent on both paths;
\* search_clinical_notes then attaches what find_by_id(resident_id) resolves
\* and leaves query, results and summary as execute returned them.
C13_ControllerAttachesResident ==
    /\ (pc \in {"done", "attached"} /\ returned # <<>>) => returned[1].resident = <<>>
    /\ pc = "attached" =>
          /\ controller_result # <<>>
          /\ \A k \in 1..Len(Residents) :
                Residents[k].id = resident_id
                => controller_result[1].resident = <<Residents[k]>>
          /\ (\A k \in 1..Len(Residents) : Residents[k].id # resident_id)
                => controller_result[1].resident = <<>>
          /\ controller_result[1].query = returned[1].query
          /\ controller_result[1].results = returned[1].results
          /\ controller_result[1].summary = returned[1].summary

\* a known resident attached to a non-empty result list
C13_Witness ==
    /\ pc = "attached"
    /\ controller_result[1].resident # <<>>
    /\ controller_result[1].resident[1].id = resident_id
    /\ Len(controller_result[1].results) = 2

\* how often a call occurs in the log
Occurrences(log, call) == Cardinality({i \in 1..Len(log) : log[i] = call})

\* C14: one execute makes exactly one note-store retrieval and at most one
\* generation call (none when the window is empty, one otherwise, also after
\* a failure); retrieval comes before generation, generation before summary.
C14_OneRetrievalOneGeneration ==
    /\ pc \in {"retrieved", "processed", "summarized", "done", "attached"}
          => (call_log # <<>> /\ call_log[1] = "find_by_resident_id"
              /\ Occurrences(call_log, "find_by_resident_id") = 1)
    /\ Occurrences(call_log, "generate_content") <= 1
    /\ (pc \in {"done", "attached"} /\ notes = <<>>)
          => call_log = <<"find_by_resident_id">>
    /\ (pc \in {"done", "attached"} /\ notes # <<>>)
          => call_log = <<"find_by_resident_id", "generate_content", "generate_summary">>
    /\ pc = "processed" => call_log = <<"find_by_resident_id", "generate_content">>

\* a failed generation call, not repeated
C14_Witness ==
    /\ pc = "done"
    /\ gen_failed
    /\ call_log = <<"find_by_resident_id", "generate_content", "generate_summary">>

\* what execute returns for these arguments, clock and service answer when
\* no other call is running
ExecuteAlone(rid, q, now, failed, text) ==
    LET ns == find_by_resident_id(repo_notes, rid, now - 14)
        rs == process_query(failed, text, ns).value
    IN IF ns = <<>>
       THEN SearchResults(q, <<>>, <<>>,
                          <<"No clinical notes found for the specified time period.">>)
       ELSE SearchResults(q, <<>>, rs, generate_summary(q, rs))

\* C15: with several execute calls running at once on shared objects, under
\* every interleaving each call returns what it would return if run alone.
C15_ConcurrentCallsIndependent ==
    \A t \in DOMAIN threads :
        threads[t].pc = "done" =>
            /\ ~threads[t].raised
            /\ threads[t].returned =
                  <<ExecuteAlone(threads[t].resident_id, threads[t].query, threads[t].now,
                                 threads[t].gen_failed, threads[t].response_text)>>

\* call 1 has returned results for one resident while call 2, for another
\* resident, is between its retrieval and its return
C15_Witness ==
    /\ threads # <<>>
    /\ threads[1].pc = "done"
    /\ threads[1].returned[1].results # <<>>
    /\ threads[2].pc = "processed"
    /\ threads[2].resident_id # threads[1].resident_id
    /\ threads[2].notes # threads[1].notes

ListedIds == {session.residents[k].id : k \in 1..Len(session.residents)}

\* C16: a non-empty resident id that is not among the residents just listed
\* is answered with the error "Resident ID ... not found." and the session is
\* back at the resident listing; no query is prompted for, and
\* search_clinical_notes is never called with an id that failed validation.
C16_UnknownResidentRejected ==
    [][ /\ (/\ session.pc = "validate"
            /\ session.resident_id \notin ListedIds)
           => /\ session'.pc = "list"
              /\ session'.shown = [kind |-> "error",
                                   text |-> <<"Resident ID '", session.resident_id,
                                              "' not found.">>]
              /\ session'.query = session.query
              /\ session'.searched = session.searched
        /\ session'.pc \in {"query", "search", "display", "confirm"}
           => session'.resident_id \in ListedIds
        /\ session'.searched \subseteq ListedIds ]_session

\* an unknown id has just been rejected after an earlier search for a listed one
C16_Witness ==
    /\ session.pc = "list"
    /\ session.resident_id = "RES999"
    /\ session.shown = [kind |-> "error",
                        text |-> <<"Resident ID '", "RES999", "' not found.">>]
    /\ session.searched = {"RES001"}

\* the results of rs that have relevance score s, in the order of rs
WithScore(rs, s) ==
    LET has_score(r) == r.relevance_score = s
    IN SelectSeq(rs, has_score)

\* C17: the sort of _parse_search_response is stable: results of equal
\* relevance_score are returned in the order of their fragments in the reply.
C17_SortIsStable ==
    pc = "parse_done" =>
        LET parsed == parse_sections(FragmentsOf(response_text), notes)
        IN \A k \in 1..Len(parsed) :
              WithScore(results, parsed[k].relevance_score)
                  = WithScore(parsed, parsed[k].relevance_score)

\* the reply names two different notes with equal score, and the two
\* results are returned in the order of their fragments
C17_Witness ==
    /\ pc = "parse_done"
    /\ Len(results) = 2
    /\ results[1].relevance_score = results[2].relevance_score
    /\ results[1].source_note # results[2].source_note
    /\ results = parse_sections(FragmentsOf(response_text), notes)

\* the one fragment of a reply that has exactly one SNIPPET: token
TheFragment ==
    LET k == CHOOSE i \in 1..Len(response_text) : response_text[i] = SNIPPET
    IN SubSeq(response_text, k + 1, Len(response_text))

OneFragmentParsed ==
    /\ pc = "parse_done"
    /\ ~gen_failed
    /\ Cardinality({i \in 1..Len(response_text) : response_text[i] = SNIPPET}) = 1

\* the positions of f where the literal is directly followed by a digit
Occurrences_of(f, literal) ==
    {i \in 1..(Len(f) - 1) : f[i] = literal /\ f[i + 1] \in Digits}

\* the digits of the first such occurrence: up to the next non-digit
FirstDigits(f, literal) ==
    LET first == CHOOSE i \in Occurrences_of(f, literal) :
                     \A j \in Occurrences_of(f, literal) : i <= j
        last == CHOOSE j \in (first + 1)..Len(f) :
                    /\ \A k \in (first + 1)..j : f[k] \in Digits
                    /\ j = Len(f) \/ f[j + 1] \notin Digits
    IN SubSeq(f, first + 1, last)

\* f holds a double quote, one or more other symbols, and a double quote
HasQuotedText(f) ==
    \E i, j \in 1..Len(f) :
        /\ i + 1 < j
        /\ f[i] = QUOTE
        /\ f[j] = QUOTE
        /\ \A k \in (i + 1)..(j - 1) : f[k] # QUOTE

\* C18: an accepted fragment's score is the integer of the first
\* RELEVANCE: <digits> occurrence (kept in tenths), and 0.5 (5 tenths) when the
\* fragment has none; a fragment with a snippet and an in-range note id is
\* accepted whether or not it states a relevance.
C18_RelevanceFirstOccurrenceOrDefault ==
    OneFragmentParsed =>
        LET f == TheFragment
        IN /\ \A k \in 1..Len(results) :
                 results[k].relevance_score =
                     IF Occurrences_of(f, RELEVANCE) = {} THEN 5
                     ELSE int(FirstDigits(f, RELEVANCE))
           /\ (/\ HasQuotedText(f)
               /\ Occurrences_of(f, NOTE_ID) # {}
               /\ int(FirstDigits(f, NOTE_ID)) < Len(notes))
              => Len(results) = 1

\* a fragment with two RELEVANCE: occurrences was accepted with the first one
C18_Witness ==
    /\ OneFragmentParsed
    /\ Cardinality(Occurrences_of(TheFragment, RELEVANCE)) = 2
    /\ Len(results) = 1
    /\ results[1].relevance_score = 9

\* C19: _prepare_context labels the i-th note (0-based, input order) NOTE_<i>,
\* and a fragment whose first NOTE_ID is NOTE_<i> with i < len(notes) yields a
\* result (when it has a snippet) whose source_note is that i-th note.
C19_ContextAndParserAgreeOnIdentity ==
    OneFragmentParsed =>
        /\ Len(context) = Len(notes)
        /\ \A k \in 1..Len(notes) :
              /\ context[k].label = <<"NOTE_">> \o str(k - 1)
              /\ context[k].content = notes[k].content
              /\ context[k].note_type = notes[k].note_type
              /\ context[k].created_at = notes[k].created_at
        /\ LET f == TheFragment
           IN (/\ Occurrences_of(f, NOTE_ID) # {}
               /\ int(FirstDigits(f, NOTE_ID)) < Len(notes))
              => LET i == int(FirstDigits(f, NOTE_ID))
                 IN /\ HasQuotedText(f) => Len(results) = 1
                    /\ \A k \in 1..Len(results) :
                          /\ results[k].source_note = notes[i + 1]
                          /\ context[i + 1].label = <<"NOTE_">> \o str(i)
                          /\ context[i + 1].content = results[k].source_note.content

\* the fragment names NOTE_1 and then NOTE_0; the result is the second note
C19_Witness ==
    /\ OneFragmentParsed
    /\ Cardinality(Occurrences_of(TheFragment, NOTE_ID)) = 2
    /\ Len(notes) = 2
    /\ Len(results) = 1
    /\ results[1].source_note = notes[2]
    /\ context[2].label = <<"NOTE_", "1">>

\* C20: the snippet of a fragment is the text between the fragment's first
\* double quote and the next double quote; a fragment without a double-quoted
\* substring is discarded; text before the first SNIPPET: yields no result.
C20_SnippetIsFirstQuotedSubstring ==
    OneFragmentParsed =>
        LET f == TheFragment
            quotes == {i \in 1..Len(f) : f[i] = QUOTE}
        IN /\ Len(results) <= 1
           /\ Cardinality(quotes) < 2 => results = <<>>
           /\ \A k \in 1..Len(results) :
                 LET q1 == CHOOSE a \in quotes : \A b \in quotes : a <= b
                     q2 == CHOOSE a \in quotes \ {q1} : \A b \in quotes \ {q1} : a <= b
                 IN results[k].snippet = SubSeq(f, q1 + 1, q2 - 1)

SessionEndedInfo == [kind |-> "info", text |-> <<"Session ended.">>]

SessionInterruptedInfo == [kind |-> "info", text |-> <<"\nSession interrupted by user.">>]

UnexpectedErrorShown == [kind |-> "error", text |-> <<"Unexpected error: ", "e">>]

SelectAnotherInfo ==
    [kind |-> "info", text |-> <<"Select another resident or press Enter to exit.">>]

\* the presenter showed message m last (kinds differ in what their text is)
Shows(sh, m) == sh.kind = m.kind /\ sh.text = m.text

\* the handler of Exception has run: the error is shown, the loop is at the listing
BackAtListing == session'.pc = "list" /\ Shows(session'.shown, UnexpectedErrorShown)

\* the handler of KeyboardInterrupt has run
EndedByInterrupt == session'.pc = "ended" /\ Shows(session'.shown, SessionInterruptedInfo)

\* C21: the session loop ends only on an empty resident id or a keyboard
\* interrupt; any other exception during listing, search or display is shown
\* with display_error and the loop is back at the resident listing; an empty
\* query or a negative confirm_continue answer leaves the chat for the resident
\* selection; every displayed result comes from a search, made just before,
\* for the selected and validated resident.
C21_SessionLoop ==
    [][ /\ session.pc # "ended"
        /\ session'.pc = "ended"
           => \/ /\ session.pc = "select"
                 /\ session'.resident_id = ""
                 /\ Shows(session'.shown, SessionEndedInfo)
              \/ EndedByInterrupt
        /\ session.pc = "list"
           => \/ session'.pc = "select" /\ session'.shown.kind = "residents"
              \/ BackAtListing
              \/ EndedByInterrupt
        /\ session.pc = "search"
           => \/ session'.pc = "display"
              \/ BackAtListing
              \/ EndedByInterrupt
        /\ session.pc = "display"
           => \/ /\ session'.pc = "confirm"
                 /\ session'.shown.kind = "results"
                 /\ session'.shown.text = session.results[1]
              \/ BackAtListing
              \/ EndedByInterrupt
        /\ session.pc = "query"
           => \/ session'.pc = "search" /\ session'.query # <<>>
              \/ /\ session'.pc = "list"
                 /\ session'.query = <<>>
                 /\ Shows(session'.shown, SelectAnotherInfo)
              \/ BackAtListing
              \/ EndedByInterrupt
        /\ session.pc = "confirm"
           => \/ /\ session'.pc = "query"
                 /\ confirm_continue(session'.response)
                 /\ session'.resident = session.resident
              \/ /\ session'.pc = "list"
                 /\ ~confirm_continue(session'.response)
                 /\ Shows(session'.shown, SelectAnotherInfo)
              \/ BackAtListing
              \/ EndedByInterrupt
        /\ session'.pc = "display"
           => /\ session.pc = "search"
              /\ session.resident_id \in session'.searched
              /\ session.resident # <<>>
              /\ session.resident[1].id = session.resident_id
              /\ \E k \in 1..Len(session.residents) :
                    session.residents[k] = session.resident[1]
              /\ session'.results[1].resident = session.resident
              /\ session'.results[1].query = session.query
              /\ \A k \in 1..Len(session'.results[1].results) :
                    session'.results[1].results[k].source_note.resident_id
                        = session.resident_id
        /\ (session'.shown.kind = "results" /\ session.pc # "display")
           => /\ session.shown.kind = "results"
              /\ session.shown.text = session'.shown.text ]_session

\* after a displayed search and the answer "no", the listing raised an
\* exception: the error is shown and the loop is still at the listing
C21_Witness ==
    /\ session.pc = "list"
    /\ Shows(session.shown, UnexpectedErrorShown)
    /\ session.response = <<"n", "o">>
    /\ session.query # <<>>
    /\ session.searched = {"RES002"}
    /\ session.results # <<>>
    /\ session.results[1].resident # <<>>
    /\ session.results[1].resident[1].id = "RES002"
    /\ session.results[1].results # <<>>

====
